---- MODULE Spec2Model ----
(***************************************************************************)
(* A model of cvat/apps/engine/media_extractors.py: the random-access and  *)
(* caching iterators, the image-list readers, the video decode generators  *)
(* and the manifest keyframe lookup.  Each component has its own           *)
(* specification; the variables of the other components are held idle.     *)
(***************************************************************************)
EXTENDS Integers, Sequences, FiniteSets, TLC

VARIABLES
    \* ---- RandomAccessIterator / CachingMediaIterator ----
    cls,                \* the class of the iterator object
    objSize,            \* what _get_object_size answers for each source element
    max_cache_memory,
    max_cache_entries,
    iterator,           \* None, or the number of elements the open iterator has produced
    pos,
    used_cache_memory,
    cache,              \* _cache: index -> [value, size]
    call,               \* the last call made on the object and its outcome
    \* ---- ImageListReader and its subclasses ----
    args,               \* the arguments the reader is constructed with
    reader,             \* the fields of the reader object
    rcall,              \* the last filter or reconcile call and its arguments
    \* ---- VideoReader.iterate_frames ----
    video,              \* the source: how many frames each packet decodes to
    corrupt,            \* the packet whose decode() raises, 0 when none does
    av_version,         \* av.__version__
    vreader,            \* the fields of the VideoReader object
    vcall,              \* the frame_filter argument of iterate_frames
    gen,                \* the iterate_frames generator
    container,          \* the av container of the generator and its decoder
    emitted,            \* the frames yielded to the consumer, in order
    events,             \* the calls made on the av library, in order
    \* ---- VideoReaderWithManifest ----
    manifest,           \* the keyframe index: entries with number and pts
    lookup,             \* the last _get_nearest_left_key_frame call and its result
    \* ---- chunk writers ----
    writer,             \* the class and the fields of the writer object
    frames,             \* the images handed to save_as_chunk, in order
    chunk,              \* what is at chunk_path
    saved,              \* the outcome of save_as_chunk
    wevents,            \* the calls made on the av output container, in order
    \* ---- ValidateDimension ----
    tree,               \* the directories os.walk yields, each with its files
    validator           \* the fields of the ValidateDimension object

cacheVars == <<cls, objSize, max_cache_memory, max_cache_entries, iterator, pos,
               used_cache_memory, cache, call>>

readerVars == <<args, reader, rcall>>

videoVars == <<video, corrupt, av_version, vreader, vcall, gen, container,
               emitted, events>>

manifestVars == <<manifest, lookup>>

writerVars == <<writer, frames, chunk, saved, wevents>>

dimVars == <<tree, validator>>

vars == <<cacheVars, readerVars, videoVars, manifestVars, writerVars, dimVars>>

-----------------------------------------------------------------------------
(* Bounds of the model *)
SrcLen == 3         \* number of elements of the wrapped iterable
MaxSize == 1        \* largest size an element may report
MaxEntries == 2     \* largest max_cache_entries tried
MaxMem == MaxSize   \* largest max_cache_memory tried
MaxFiles == 3       \* largest number of entries of an image list
MaxIdx == 3         \* largest start and stop a reader is given
MaxStep == 2        \* largest step a reader is given
MaxPackets == 2     \* largest number of packets of a video
MaxPerPacket == 2   \* largest number of frames one packet decodes to
MaxFrameId == 3     \* largest frame index a frame filter asks for
MaxKey == 4         \* largest frame number of a manifest entry
RcFiles == 2        \* number of file names a filtered or reconciled list draws on
RcIdx == 2          \* largest start and stop of a filtered or reconciled reader
RcStep == 2         \* largest step of a filtered or reconciled reader
MaxFrames == 2      \* largest number of images handed to a chunk writer
ZipDim == 2         \* largest width of an image handed to a zip writer
DimSpread == 1      \* how far the video frame sizes tried lie from the ceiling's side
MaxDirs == 1        \* largest number of directories of a dataset tree
MaxDirFiles == 2    \* largest number of files of one directory

None == -1          \* Python's None, where an integer is expected

\* the wrapped iterable: a restartable sequence of distinct elements
iterable == [i \in 1..SrcLen |-> 100 + i]

Min(S) == CHOOSE m \in S : \A k \in S : m <= k

RECURSIVE SumSizes(_)
\* sum(entry.size for entry in c.values())
SumSizes(c) ==
    IF DOMAIN c = {} THEN 0
    ELSE LET k == Min(DOMAIN c)
         IN c[k].size + SumSizes([j \in DOMAIN c \ {k} |-> c[j]])

EmptyCache == [k \in {} |-> [value |-> None, size |-> 0]]

\* no call made yet on the iterator object
NoCall == [op |-> "init", idx |-> None, hit |-> FALSE, ret |-> None,
           err |-> "None", evicted |-> <<>>, inserted |-> FALSE,
           closes |-> 0, opens |-> 0]

\* no reader constructed, no arguments chosen
NoReader == [constructed |-> FALSE, err |-> "None", source_path |-> <<>>,
             step |-> None, start |-> None, stop |-> None,
             dimension |-> "None", sorting_method |-> "None"]

NoRCall == [op |-> "None"]

NoArgs == <<>>

\* no video reader, no generator, no container
NoVideo == <<>>

NoVReader == [start |-> 0, stop |-> None, step |-> 1, allow_threading |-> FALSE]

NoVCall == [frame_filter |-> "None", list |-> <<>>]

NoFilter == [kind |-> "None", list |-> <<>>, cur |-> 0, step |-> 1, stop |-> None]

NoGen == [pc |-> "none", fit |-> NoFilter, next_frame_filter_frame |-> None,
          frame_counter |-> 0]

NoContainer == [state |-> "none", open_files |-> FALSE,
                ctx |-> [st \in {} |-> "none"], thread_type |-> "None",
                decoder |-> "none", demuxed |-> 0, decoded |-> 0, pending |-> 0,
                next_frame |-> 0]

\* no manifest, no lookup made
NoManifest == <<>>

NoLookup == [frame_id |-> None, frame_number |-> None, timestamp |-> None]

\* no writer, nothing at chunk_path, save_as_chunk not called
NoWriter == [cls |-> "None"]

NoChunk == [state |-> "absent", kind |-> "None", entries |-> <<>>]

NoSaved == [done |-> FALSE, ret |-> <<>>, err |-> "None"]

\* no dataset, no validator
NoTree == <<>>

NoValidator == [path |-> FALSE, validated |-> FALSE, dimension |-> "None",
                related_files |-> {}, image_files |-> {},
                converted_files |-> <<>>]

-----------------------------------------------------------------------------
(* RandomAccessIterator *)

\* close() that drops the iterator and leaves the cursor where it was
close_keeps_pos(st) ==
    [st EXCEPT !.iterator = None,
               !.closes = IF st.iterator # None THEN @ + 1 ELSE @]

\* close() that also drops the cached entries of the object
close_clears_cache(st) ==
    [st EXCEPT !.iterator = None, !.pos = -1, !.cache = EmptyCache,
               !.closes = IF st.iterator # None THEN @ + 1 ELSE @]

\* close(): the underlying iterator, if one is held, has its close() called;
\* it is dropped and the cursor rewound.  closes counts the close() calls made
\* on underlying iterators, opens the iter(self.iterable) calls
close(st) == [st EXCEPT !.iterator = None, !.pos = -1,
                        !.closes = IF st.iterator # None THEN @ + 1 ELSE @]

\* reset(): close(), then iter(self.iterable)
reset(st) == [close(st) EXCEPT !.iterator = 0, !.opens = @ + 1]

RECURSIVE advance(_, _, _)
\* while self.pos < idx: v = next(self.iterator); self.pos += 1
advance(st, idx, v) ==
    IF st.pos < idx
    THEN IF st.iterator >= Len(iterable)
         THEN [iterator |-> st.iterator, pos |-> st.pos, closes |-> st.closes,
               opens |-> st.opens, v |-> None, err |-> "StopIteration"]
         ELSE advance([st EXCEPT !.iterator = @ + 1, !.pos = @ + 1], idx,
                      iterable[st.iterator + 1])
    ELSE [iterator |-> st.iterator, pos |-> st.pos, closes |-> st.closes,
          opens |-> st.opens, v |-> v, err |-> "None"]

\* __getitem__ that restarts only for an index strictly behind the cursor
RandomAccessIterator_getitem_strictly_behind(st, idx) ==
    LET s0 == IF st.iterator = None \/ idx < st.pos THEN reset(st) ELSE st
    IN advance(s0, idx, None)

\* RandomAccessIterator.__getitem__(idx), 0 <= idx
RandomAccessIterator_getitem(st, idx) ==
    LET s0 == IF st.iterator = None \/ idx <= st.pos THEN reset(st) ELSE st
    IN advance(s0, idx, None)

-----------------------------------------------------------------------------
(* CachingMediaIterator *)

\* _get_object_size(value) of the element at position idx
get_object_size(idx) == objSize[idx]

RECURSIVE evict(_, _, _, _)
\* the eviction loop; min() of an empty dict raises ValueError
evict(c, used, value_size, ev) ==
    IF Cardinality(DOMAIN c) + 1 > max_cache_entries
       \/ used + value_size > max_cache_memory
    THEN IF DOMAIN c = {}
         THEN [cache |-> c, evicted |-> ev, err |-> "ValueError"]
         ELSE LET min_key == Min(DOMAIN c)
              IN evict([k \in DOMAIN c \ {min_key} |-> c[k]], used, value_size,
                       Append(ev, min_key))
    ELSE [cache |-> c, evicted |-> ev, err |-> "None"]

\* CachingMediaIterator.__getitem__ from the fetch on: the path of a miss
CachingMediaIterator_miss(st, idx) ==
    LET r == RandomAccessIterator_getitem(st, idx)
    IN IF r.err # "None"
       THEN [iterator |-> r.iterator, pos |-> r.pos, cache |-> st.cache,
             used |-> st.used, hit |-> FALSE, ret |-> None, err |-> r.err,
             evicted |-> <<>>, inserted |-> FALSE, closes |-> r.closes,
             opens |-> r.opens]
       ELSE LET value_size == get_object_size(idx)
                e == evict(st.cache, st.used, value_size, <<>>)
                fits == st.used + value_size <= max_cache_memory
            IN IF e.err # "None"
               THEN [iterator |-> r.iterator, pos |-> r.pos, cache |-> e.cache,
                     used |-> st.used, hit |-> FALSE, ret |-> None,
                     err |-> e.err, evicted |-> e.evicted, inserted |-> FALSE,
                     closes |-> r.closes, opens |-> r.opens]
               ELSE [iterator |-> r.iterator, pos |-> r.pos,
                     cache |-> IF fits
                               THEN [k \in DOMAIN e.cache \cup {idx} |->
                                       IF k = idx
                                       THEN [value |-> r.v, size |-> value_size]
                                       ELSE e.cache[k]]
                               ELSE e.cache,
                     used |-> st.used, hit |-> FALSE, ret |-> r.v,
                     err |-> "None", evicted |-> e.evicted, inserted |-> fits,
                     closes |-> r.closes, opens |-> r.opens]

\* CachingMediaIterator.__getitem__ with the fetch made before the cache lookup
CachingMediaIterator_getitem_fetch_first(st, idx) ==
    LET r == RandomAccessIterator_getitem(st, idx)
    IN IF idx \in DOMAIN st.cache
       THEN [iterator |-> r.iterator, pos |-> r.pos, cache |-> st.cache,
             used |-> st.used, hit |-> TRUE, ret |-> st.cache[idx].value,
             err |-> "None", evicted |-> <<>>, inserted |-> FALSE,
             closes |-> r.closes, opens |-> r.opens]
       ELSE CachingMediaIterator_miss(st, idx)

\* CachingMediaIterator.__getitem__(idx): the object's fields after the call,
\* with the returned value and the exception raised
CachingMediaIterator_getitem(st, idx) ==
    IF idx \in DOMAIN st.cache
    THEN [iterator |-> st.iterator, pos |-> st.pos, cache |-> st.cache,
          used |-> st.used, hit |-> TRUE, ret |-> st.cache[idx].value,
          err |-> "None", evicted |-> <<>>, inserted |-> FALSE,
          closes |-> st.closes, opens |-> st.opens]
    ELSE CachingMediaIterator_miss(st, idx)

\* the fields of the object, and no close() or iter() call made yet
self == [iterator |-> iterator, pos |-> pos, cache |-> cache,
         used |-> used_cache_memory, closes |-> 0, opens |-> 0]

\* self[idx], dispatched on the class of the object
getitem(idx) ==
    IF cls = "CachingMediaIterator"
    THEN CachingMediaIterator_getitem(self, idx)
    ELSE LET r == RandomAccessIterator_getitem(self, idx)
         IN [iterator |-> r.iterator, pos |-> r.pos, cache |-> cache,
             used |-> used_cache_memory, hit |-> FALSE, ret |-> r.v,
             err |-> r.err, evicted |-> <<>>, inserted |-> FALSE,
             closes |-> r.closes, opens |-> r.opens]

Called(op, idx, r) ==
    /\ iterator' = r.iterator
    /\ pos' = r.pos
    /\ cache' = r.cache
    /\ used_cache_memory' = r.used
    /\ call' = [op |-> op, idx |-> idx, hit |-> r.hit, ret |-> r.ret,
                err |-> r.err, evicted |-> r.evicted, inserted |-> r.inserted,
                closes |-> r.closes, opens |-> r.opens]
    /\ UNCHANGED <<cls, objSize, max_cache_memory, max_cache_entries>>
    /\ UNCHANGED <<readerVars, videoVars, manifestVars,
                 writerVars, dimVars>>

\* __init__ of either class
InitCache ==
    /\ cls \in {"RandomAccessIterator", "CachingMediaIterator"}
    /\ IF cls = "CachingMediaIterator"
       THEN /\ objSize \in [0..(SrcLen - 1) -> 0..MaxSize]
            /\ max_cache_memory \in 0..MaxMem
            /\ max_cache_entries \in 0..MaxEntries
       ELSE /\ objSize = [i \in 0..(SrcLen - 1) |-> 0]
            /\ max_cache_memory = 0
            /\ max_cache_entries = 0
    /\ iterator = None
    /\ pos = -1
    /\ used_cache_memory = 0
    /\ cache = EmptyCache
    /\ call = NoCall
    /\ writer = NoWriter /\ frames = <<>> /\ chunk = NoChunk
    /\ saved = NoSaved /\ wevents = <<>>
    /\ tree = NoTree /\ validator = NoValidator
    /\ args = NoArgs /\ reader = NoReader /\ rcall = NoRCall
    /\ video = NoVideo /\ corrupt = 0 /\ av_version = "None"
    /\ vreader = NoVReader /\ vcall = NoVCall /\ gen = NoGen
    /\ container = NoContainer /\ emitted = <<>> /\ events = <<>>
    /\ manifest = NoManifest /\ lookup = NoLookup

\* obj[idx]; idx = SrcLen is one past the end of the source
GetItem(idx) == Called("getitem", idx, getitem(idx))

\* next(obj): return self[self.pos + 1]
NextItem == Called("next", pos + 1, getitem(pos + 1))

Plain(st) == [iterator |-> st.iterator, pos |-> st.pos, cache |-> st.cache,
              used |-> st.used, hit |-> FALSE, ret |-> None,
              err |-> "None", evicted |-> <<>>, inserted |-> FALSE,
              closes |-> st.closes, opens |-> st.opens]

Close == Called("close", None, Plain(close(self)))

Reset == Called("reset", None, Plain(reset(self)))

NextCache ==
    \/ \E idx \in 0..SrcLen : GetItem(idx)
    \/ NextItem
    \/ Close
    \/ Reset

SpecCache == InitCache /\ [][NextCache]_vars

-----------------------------------------------------------------------------
(* ImageListReader *)

Max(a, b) == IF a >= b THEN a ELSE b

RECURSIVE range(_, _, _)
\* range(start, stop, step) as the sequence of its members, step >= 1
range(start, stop, step) ==
    IF start >= stop THEN <<>> ELSE <<start>> \o range(start + step, stop, step)

\* sort(images, sorting_method); perm is the order shuffle() leaves
sort(images, sorting_method, perm) ==
    CASE sorting_method = "LEXICOGRAPHICAL" -> SortSeq(images, LAMBDA a, b : a < b)
      [] sorting_method = "NATURAL" -> SortSeq(images, LAMBDA a, b : a < b)
      [] sorting_method = "PREDEFINED" -> images
      [] sorting_method = "RANDOM" -> [i \in 1..Len(images) |-> images[perm[i]]]

\* ImageListReader.__init__: the fields of the object, or the exception raised
ImageListReader_init(source_path, step, start, stop, dimension, sorting_method, perm) ==
    IF source_path = <<>>
    THEN [NoReader EXCEPT !.err = "Exception: No image found"]
    ELSE LET stop1 == IF stop = None \/ stop = 0      \* if not stop
                      THEN Len(source_path) - 1
                      ELSE Min({Len(source_path) - 1, stop})
             step1 == Max(step, 1)
         IN IF ~(stop1 >= start)
            THEN [NoReader EXCEPT !.err = "AssertionError"]
            ELSE [constructed |-> TRUE, err |-> "None",
                  source_path |-> sort(source_path, sorting_method, perm),
                  step |-> step1, start |-> start, stop |-> stop1,
                  dimension |-> dimension, sorting_method |-> sorting_method]

\* the frame_range property
frame_range(r) == range(r.start, r.stop + 1, r.step)

\* __len__
len(r) == Len(frame_range(r))

SortingMethod == {"LEXICOGRAPHICAL", "NATURAL", "PREDEFINED", "RANDOM"}

Perms(n) == {p \in [1..n -> 1..n] : \A i, j \in 1..n : p[i] = p[j] => i = j}

\* the arguments of a construction: a list of up to MaxFiles file names
InitReader ==
    /\ args \in [source_path : UNION {[1..n -> 1..MaxFiles] : n \in 0..MaxFiles},
                  step : 0..MaxStep,
                  start : 0..MaxIdx,
                  stop : {None} \cup 0..MaxIdx,
                  sorting_method : SortingMethod]
    /\ reader = NoReader
    /\ rcall = NoRCall
    /\ cls = "None" /\ objSize = <<>> /\ max_cache_memory = 0
    /\ max_cache_entries = 0 /\ iterator = None /\ pos = -1
    /\ used_cache_memory = 0 /\ cache = EmptyCache /\ call = NoCall
    /\ writer = NoWriter /\ frames = <<>> /\ chunk = NoChunk
    /\ saved = NoSaved /\ wevents = <<>>
    /\ tree = NoTree /\ validator = NoValidator
    /\ video = NoVideo /\ corrupt = 0 /\ av_version = "None"
    /\ vreader = NoVReader /\ vcall = NoVCall /\ gen = NoGen
    /\ container = NoContainer /\ emitted = <<>> /\ events = <<>>
    /\ manifest = NoManifest /\ lookup = NoLookup

\* ImageListReader(source_path, step, start, stop, sorting_method)
Construct ==
    /\ ~reader.constructed
    /\ reader.err = "None"
    /\ \E perm \in Perms(Len(args.source_path)) :
          /\ args.sorting_method # "RANDOM" => \A i \in DOMAIN perm : perm[i] = i
          /\ reader' = ImageListReader_init(args.source_path, args.step, args.start,
                                            args.stop, "DIM_2D",
                                            args.sorting_method, perm)
    /\ UNCHANGED <<args, rcall>>
    /\ UNCHANGED <<cacheVars, videoVars, manifestVars,
                 writerVars, dimVars>>

NextReader == Construct

SpecReader == InitReader /\ [][NextReader]_vars

-----------------------------------------------------------------------------
(* ImageListReader.filter, ImageListReader.reconcile, ZipReader.reconcile *)

\* a constructor call made on the existing object: an exception leaves
\* __init__ before any field is assigned
reinit(r, n) == IF n.err # "None" THEN [r EXCEPT !.err = n.err] ELSE n

\* filter(callback), where callback holds of the names in keep
ImageListReader_filter(r, keep, perm) ==
    LET source_path == SelectSeq(r.source_path, LAMBDA x : x \in keep)
    IN reinit(r, ImageListReader_init(source_path, r.step, r.start, r.stop,
                                      r.dimension, r.sorting_method, perm))

\* reconcile(source_files, step, start, stop, dimension, sorting_method):
\* __init__ is called without the dimension, which is assigned afterwards
ImageListReader_reconcile(r, source_files, step, start, stop, dimension, sorting_method, perm) ==
    LET n == ImageListReader_init(source_files, step, start, stop, "DIM_2D",
                                  IF sorting_method # "None" THEN sorting_method
                                  ELSE r.sorting_method,
                                  perm)
    IN IF n.err # "None" THEN reinit(r, n)
       ELSE [n EXCEPT !.dimension = dimension]

\* the extract directory of a ZipReader, and a name below it
Prefix == 10

get_path(name) == Prefix + name

\* os.path.relpath(fn, prefix) of a path below the prefix
relpath(fn) == fn - Prefix

\* ZipReader.reconcile: the files come as get_path() gives them
ZipReader_reconcile(r, source_files, step, start, stop, dimension, sorting_method, perm) ==
    LET files == IF source_files # <<>>
                 THEN [i \in 1..Len(source_files) |-> relpath(source_files[i])]
                 ELSE source_files
    IN ImageListReader_reconcile(r, files, step, start, stop, dimension,
                                 sorting_method, perm)

\* the lists of up to n distinct names out of 1..n
Lists(n) == {l \in UNION {[1..k -> 1..n] : k \in 0..n} :
                \A i, j \in DOMAIN l : l[i] = l[j] => i = j}

\* the order shuffle() may leave: any for RANDOM, not used otherwise
Shuffles(sorting_method, n) ==
    IF sorting_method = "RANDOM" THEN Perms(n) ELSE {[i \in 1..n |-> i]}

\* a reader as its constructor leaves it
InitFilter ==
    /\ \E l \in Lists(RcFiles) \ {<<>>} :
       \E sm \in SortingMethod :
          reader \in {ImageListReader_init(l, step, start, stop, dimension, sm,
                                           perm) :
                         step \in 1..RcStep, start \in 0..RcIdx,
                         stop \in {None} \cup 0..RcIdx,
                         dimension \in {"DIM_2D", "DIM_3D"},
                         perm \in Shuffles(sm, Len(l))}
    /\ reader.constructed
    /\ rcall = NoRCall
    /\ args = NoArgs
    /\ cls = "None" /\ objSize = <<>> /\ max_cache_memory = 0
    /\ max_cache_entries = 0 /\ iterator = None /\ pos = -1
    /\ used_cache_memory = 0 /\ cache = EmptyCache /\ call = NoCall
    /\ writer = NoWriter /\ frames = <<>> /\ chunk = NoChunk
    /\ saved = NoSaved /\ wevents = <<>>
    /\ tree = NoTree /\ validator = NoValidator
    /\ video = NoVideo /\ corrupt = 0 /\ av_version = "None"
    /\ vreader = NoVReader /\ vcall = NoVCall /\ gen = NoGen
    /\ container = NoContainer /\ emitted = <<>> /\ events = <<>>
    /\ manifest = NoManifest /\ lookup = NoLookup

\* reader.filter(callback)
Filter ==
    \E keep \in SUBSET (1..RcFiles) :
    \E perm \in UNION {Shuffles(reader.sorting_method, k) : k \in 0..RcFiles} :
       /\ Len(perm) = Len(SelectSeq(reader.source_path, LAMBDA x : x \in keep))
       /\ reader' = ImageListReader_filter(reader, keep, perm)
       /\ rcall' = [op |-> "filter"]
       /\ UNCHANGED args
       /\ UNCHANGED <<cacheVars, videoVars, manifestVars,
                 writerVars, dimVars>>

\* the arguments of a reconcile call: the settings are left to their
\* defaults, or the reader's own settings are handed back to it
ReconcileArgs(r) ==
    {[form |-> "defaults", step |-> 1, start |-> 0, stop |-> None,
      dimension |-> "DIM_2D"],
     [form |-> "own", step |-> r.step, start |-> r.start, stop |-> r.stop,
      dimension |-> r.dimension]}

\* reader.reconcile(source_files, ...), on an ImageListReader or a ZipReader
Reconcile(zip) ==
    \E source_files \in Lists(RcFiles) :
    \E a \in ReconcileArgs(reader) :
    \E sorting_method \in {"None"} \cup SortingMethod :
    \E perm \in Shuffles(IF sorting_method # "None" THEN sorting_method
                          ELSE reader.sorting_method, Len(source_files)) :
       /\ reader' =
             IF zip
             THEN ZipReader_reconcile(
                      reader,
                      [i \in 1..Len(source_files) |-> get_path(source_files[i])],
                      a.step, a.start, a.stop, a.dimension, sorting_method, perm)
             ELSE ImageListReader_reconcile(
                      reader, source_files, a.step, a.start, a.stop,
                      a.dimension, sorting_method, perm)
       /\ rcall' = [op |-> "reconcile", form |-> a.form,
                    sorting_method |-> sorting_method]
       /\ UNCHANGED args
       /\ UNCHANGED <<cacheVars, videoVars, manifestVars,
                 writerVars, dimVars>>

NextFilter ==
    \/ Filter
    \/ \E zip \in BOOLEAN : Reconcile(zip)

SpecFilter == InitFilter /\ [][NextFilter]_vars

-----------------------------------------------------------------------------
(* _AvVideoReading and VideoReader.iterate_frames *)

\* container.streams, in order
Streams == <<"video", "audio">>

\* a frame filter iterator: iter(list), or itertools.count(cur, step) under
\* takewhile(x <= stop) when stop is not None
IterList(F) == [kind |-> "list", list |-> F, cur |-> 0, step |-> 1, stop |-> None]

Count(start, step, stop) ==
    [kind |-> "count", list |-> <<>>, cur |-> start, step |-> step, stop |-> stop]

\* next(frame_filter_iter, None): the value and the iterator after it
next_filter(fit) ==
    IF fit.kind = "list"
    THEN IF fit.list = <<>>
         THEN [val |-> None, fit |-> fit]
         ELSE [val |-> Head(fit.list), fit |-> [fit EXCEPT !.list = Tail(@)]]
    ELSE IF fit.stop # None /\ fit.cur > fit.stop
         THEN [val |-> None, fit |-> fit]
         ELSE [val |-> fit.cur, fit |-> [fit EXCEPT !.cur = @ + fit.step]]

\* the frame filter iterate_frames iterates over, from its argument
frame_filter_of(r, c) ==
    IF c.frame_filter = "True"
    THEN IF r.stop # None /\ r.stop # 0              \* if self._stop
         THEN Count(r.start, r.step, r.stop)
         ELSE Count(r.start, r.step, None)
    ELSE IF c.frame_filter = "False" \/ c.list = <<>>   \* elif not frame_filter
         THEN Count(0, 1, None)
         ELSE IterList(c.list)

RECURSIVE CumFrames(_)
\* the number of frames the first k packets decode to
CumFrames(k) == IF k = 0 THEN 0 ELSE video[k] + CumFrames(k - 1)

\* the packet that holds frame f of the video
PacketOf(f) == Min({k \in 1..Len(video) : CumFrames(k) > f})

\* the finally block of decode_stream without the draining
decode_finally_no_drain(s) == [s EXCEPT !.c.decoder = "done"]

\* the finally block of decode_stream: on the affected version with
\* multithreaded decoding the demux iterator is run to its end
decode_finally(s) ==
    IF av_version = "9.2.0" /\ s.c.thread_type = "AUTO"
    THEN [s EXCEPT !.c.demuxed = Len(video), !.c.decoder = "done",
                   !.events = Append(@, "drain")]
    ELSE [s EXCEPT !.c.decoder = "done"]

RECURSIVE close_contexts(_, _)
\* for stream in container.streams: close its codec context if open
close_contexts(s, i) ==
    IF i > Len(Streams) THEN s
    ELSE LET stream == Streams[i]
         IN IF s.c.ctx[stream] = "open"                \* context and context.is_open
            THEN close_contexts([s EXCEPT !.c.ctx[stream] = "closed",
                                          !.events = Append(@, "context.close")],
                                i + 1)
            ELSE close_contexts(s, i + 1)

\* the finally block of read_av_container
read_av_container_exit(s) ==
    LET s1 == close_contexts(s, 1)
    IN IF s1.c.open_files
       THEN [s1 EXCEPT !.c.state = "closed",
                       !.events = Append(@, "container.close")]
       ELSE s1

\* the generator leaves its with blocks: the decoder is closed if it still
\* runs, then the exit stack closes the container
leave(s, how) ==
    LET s1 == IF s.c.decoder = "running" THEN decode_finally(s) ELSE s
    IN [read_av_container_exit(s1) EXCEPT !.gen.pc = how]

RECURSIVE pull(_)
\* the for loop over zip(stream_decoder, frame_counter), up to the next yield
pull(s) ==
    IF s.c.pending > 0
    THEN \* the decoder yields the next frame of the packet
         LET frame == s.c.next_frame
             frame_number == s.gen.frame_counter
             s1 == [s EXCEPT !.c.pending = @ - 1, !.c.next_frame = @ + 1,
                             !.gen.frame_counter = @ + 1]
         IN IF frame_number = s.gen.next_frame_filter_frame
            THEN [s1 EXCEPT !.gen.pc = "suspended",
                            !.emitted = Append(@, [frame |-> frame,
                                                   number |-> frame_number])]
            ELSE IF s.gen.next_frame_filter_frame = None
                 THEN leave(s1, "finished")
                 ELSE pull(s1)
    ELSE IF s.c.demuxed >= Len(video)
         THEN \* no packet is left: the decoder ends, the loop ends
              leave(decode_finally(s), "finished")
         ELSE LET k == s.c.demuxed + 1
              IN IF corrupt = k
                 THEN \* packet.decode() raises
                      leave(decode_finally([s EXCEPT !.c.demuxed = k]), "failed")
                 ELSE pull([s EXCEPT !.c.demuxed = k, !.c.decoded = @ + video[k],
                                     !.c.pending = video[k],
                                     !.c.ctx["video"] = "open",
                                     !.events = Append(@, "decode")])

\* the first next() on the generator: the body up to the first yield
start(s, open_files, ctx) ==
    LET f == next_filter(frame_filter_of(vreader, vcall))
    IN IF f.val = None
       THEN [s EXCEPT !.gen.pc = "finished", !.gen.fit = f.fit]
       ELSE pull([s EXCEPT
                    !.gen.fit = f.fit,
                    !.gen.next_frame_filter_frame = f.val,
                    !.gen.frame_counter = 0,
                    !.c = [state |-> "open", open_files |-> open_files,
                           ctx |-> ctx,
                           thread_type |-> IF vreader.allow_threading
                                           THEN "AUTO" ELSE "NONE",
                           decoder |-> "running", demuxed |-> 0, decoded |-> 0,
                           pending |-> 0, next_frame |-> 0],
                    !.events = Append(@, "av.open")])

\* a later next(): the statements after the yield, then the loop again
resume(s) ==
    LET f == next_filter(s.gen.fit)
        s1 == [s EXCEPT !.gen.fit = f.fit, !.gen.next_frame_filter_frame = f.val]
    IN IF f.val = None THEN leave(s1, "finished") ELSE pull(s1)

vstate == [gen |-> gen, c |-> container, emitted |-> emitted, events |-> events]

Became(s) ==
    /\ gen' = s.gen
    /\ container' = s.c
    /\ emitted' = s.emitted
    /\ events' = s.events
    /\ UNCHANGED <<video, corrupt, av_version, vreader, vcall>>
    /\ UNCHANGED <<cacheVars, readerVars, manifestVars,
                 writerVars, dimVars>>

RECURSIVE Ascending(_, _)
\* the strictly ascending sequences over lo..hi
Ascending(lo, hi) ==
    IF lo > hi THEN {<<>>}
    ELSE Ascending(lo + 1, hi)
         \cup {<<lo>> \o t : t \in Ascending(lo + 1, hi)}

\* a VideoReader over a video, and the iterate_frames call to be made; the
\* start, stop and step of the reader are read only when frame_filter is True
InitVideo ==
    /\ video \in UNION {[1..n -> 0..MaxPerPacket] : n \in 0..MaxPackets}
    /\ corrupt \in 0..Len(video)
    /\ av_version \in {"9.2.0", "12.2.0"}
    /\ vcall \in [frame_filter : {"True", "False"}, list : {<<>>}]
                 \cup [frame_filter : {"list"}, list : Ascending(0, MaxFrameId)]
    /\ vreader \in [start : 0..MaxFrameId, stop : {None} \cup 0..MaxFrameId,
                    step : 1..MaxStep, allow_threading : BOOLEAN]
    /\ vcall.frame_filter # "True" =>
          vreader.start = 0 /\ vreader.stop = None /\ vreader.step = 1
    /\ gen = NoGen
    /\ container = NoContainer
    /\ emitted = <<>>
    /\ events = <<>>
    /\ cls = "None" /\ objSize = <<>> /\ max_cache_memory = 0
    /\ max_cache_entries = 0 /\ iterator = None /\ pos = -1
    /\ used_cache_memory = 0 /\ cache = EmptyCache /\ call = NoCall
    /\ writer = NoWriter /\ frames = <<>> /\ chunk = NoChunk
    /\ saved = NoSaved /\ wevents = <<>>
    /\ tree = NoTree /\ validator = NoValidator
    /\ args = NoArgs /\ reader = NoReader /\ rcall = NoRCall
    /\ manifest = NoManifest /\ lookup = NoLookup

\* reader.iterate_frames(frame_filter=...): the generator object is made
Iterate ==
    /\ gen.pc = "none"
    /\ Became([vstate EXCEPT !.gen.pc = "unstarted"])

\* the first next(generator); av.open hands back a container whose
\* open_files and codec contexts are the library's
GenStart ==
    /\ gen.pc = "unstarted"
    /\ \E open_files \in BOOLEAN :
       \E ctx \in [{"video"} -> {"closed", "open"}] :
       \E actx \in {"none", "open"} :
          Became(start(vstate, open_files,
                       [st \in {"video", "audio"} |->
                          IF st = "video" THEN ctx["video"] ELSE actx]))

\* a later next(generator)
GenNext ==
    /\ gen.pc = "suspended"
    /\ Became(resume(vstate))

\* generator.close() before the first next(): the body never runs
GenCloseUnstarted ==
    /\ gen.pc = "unstarted"
    /\ Became([vstate EXCEPT !.gen.pc = "closed"])

\* generator.close() at a yield: GeneratorExit unwinds the with blocks
GenClose ==
    /\ gen.pc = "suspended"
    /\ Became(leave(vstate, "closed"))

NextVideo ==
    \/ Iterate
    \/ GenStart
    \/ GenNext
    \/ GenCloseUnstarted
    \/ GenClose

SpecVideo == InitVideo /\ [][NextVideo]_vars

-----------------------------------------------------------------------------
(* VideoReaderWithManifest._get_nearest_left_key_frame *)

RECURSIVE bisect_right(_, _, _, _)
\* bisect.bisect(a, x, key=number): the binary search, indices from 0
bisect_right(a, x, lo, hi) ==
    IF lo < hi
    THEN LET mid == (lo + hi) \div 2
         IN IF x < a[mid + 1].number
            THEN bisect_right(a, x, lo, mid)
            ELSE bisect_right(a, x, mid + 1, hi)
    ELSE lo

bisect(a, x) == bisect_right(a, x, 0, Len(a))

RECURSIVE bisect_left(_, _, _, _)
\* bisect.bisect_left: the insertion point before equal entries
bisect_left(a, x, lo, hi) ==
    IF lo < hi
    THEN LET mid == (lo + hi) \div 2
         IN IF a[mid + 1].number < x
            THEN bisect_left(a, x, mid + 1, hi)
            ELSE bisect_left(a, x, lo, mid)
    ELSE lo

\* _get_nearest_left_key_frame written with bisect_left
get_nearest_left_key_frame_bisect_left(frame_id) ==
    LET nearest_left_keyframe_pos == bisect_left(manifest, frame_id, 0, Len(manifest))
    IN IF nearest_left_keyframe_pos # 0
       THEN [frame_number |-> manifest[nearest_left_keyframe_pos].number,
             timestamp |-> manifest[nearest_left_keyframe_pos].pts]
       ELSE [frame_number |-> 0, timestamp |-> 0]

\* _get_nearest_left_key_frame(frame_id); manifest[pos - 1] of the code is the
\* entry at pos here, where sequences start at 1
get_nearest_left_key_frame(frame_id) ==
    LET nearest_left_keyframe_pos == bisect(manifest, frame_id)
    IN IF nearest_left_keyframe_pos # 0
       THEN [frame_number |-> manifest[nearest_left_keyframe_pos].number,
             timestamp |-> manifest[nearest_left_keyframe_pos].pts]
       ELSE [frame_number |-> 0, timestamp |-> 0]

\* the timestamp of frame n of the video
pts_of(n) == 7 * n

\* a manifest: entries by ascending frame number, possibly none
InitManifest ==
    /\ manifest \in {[i \in 1..Len(ns) |-> [number |-> ns[i], pts |-> pts_of(ns[i])]] :
                       ns \in Ascending(0, MaxKey)}
    /\ lookup = NoLookup
    /\ cls = "None" /\ objSize = <<>> /\ max_cache_memory = 0
    /\ max_cache_entries = 0 /\ iterator = None /\ pos = -1
    /\ used_cache_memory = 0 /\ cache = EmptyCache /\ call = NoCall
    /\ writer = NoWriter /\ frames = <<>> /\ chunk = NoChunk
    /\ saved = NoSaved /\ wevents = <<>>
    /\ tree = NoTree /\ validator = NoValidator
    /\ args = NoArgs /\ reader = NoReader /\ rcall = NoRCall
    /\ video = NoVideo /\ corrupt = 0 /\ av_version = "None"
    /\ vreader = NoVReader /\ vcall = NoVCall /\ gen = NoGen
    /\ container = NoContainer /\ emitted = <<>> /\ events = <<>>

\* self._get_nearest_left_key_frame(frame_id)
Lookup(frame_id) ==
    /\ lookup' = [frame_id |-> frame_id,
                  frame_number |-> get_nearest_left_key_frame(frame_id).frame_number,
                  timestamp |-> get_nearest_left_key_frame(frame_id).timestamp]
    /\ UNCHANGED manifest
    /\ UNCHANGED <<cacheVars, readerVars, videoVars,
                 writerVars, dimVars>>

NextManifest == \E frame_id \in 0..(MaxKey + 1) : Lookup(frame_id)

SpecManifest == InitManifest /\ [][NextManifest]_vars

-----------------------------------------------------------------------------
(* VideoReaderWithManifest.iterate_frames *)

\* the frames a packet starts with: each packet of the videos tried opens
\* with a keyframe
KeyFrames == {CumFrames(k - 1) : k \in {j \in 1..Len(video) : video[j] > 0}}

\* the largest element of a non-empty set of numbers
Last(S) == CHOOSE m \in S : \A k \in S : k <= m

\* container.seek(offset, stream=video_stream): the demuxer is put at the
\* last keyframe whose timestamp is at most offset
seek(s, offset) ==
    LET at == {f \in KeyFrames : pts_of(f) <= offset}
    IN IF at = {}
       THEN [s EXCEPT !.events = Append(@, "seek")]
       ELSE [s EXCEPT !.c.demuxed = PacketOf(Last(at)) - 1,
                      !.c.next_frame = Last(at),
                      !.c.pending = 0,
                      !.events = Append(@, "seek")]

\* the body of iterate_frames up to the first yield, with the frame counter
\* started at zero
VideoReaderWithManifest_start_count_from_zero(s, open_files, ctx) ==
    LET f == next_filter(IterList(vcall.list))
    IN IF f.val = None
       THEN [s EXCEPT !.gen.pc = "finished", !.gen.fit = f.fit]
       ELSE LET key == get_nearest_left_key_frame(f.val)
                s1 == [s EXCEPT
                         !.gen.fit = f.fit,
                         !.gen.next_frame_filter_frame = f.val,
                         !.gen.frame_counter = 0,
                         !.c = [state |-> "open", open_files |-> open_files,
                                ctx |-> ctx,
                                thread_type |-> IF vreader.allow_threading
                                                THEN "AUTO" ELSE "NONE",
                                decoder |-> "running", demuxed |-> 0,
                                decoded |-> 0, pending |-> 0, next_frame |-> 0],
                         !.events = Append(@, "av.open")]
            IN pull(seek(s1, key.timestamp))

\* the first next() on the generator of VideoReaderWithManifest: the body of
\* iterate_frames up to the first yield
VideoReaderWithManifest_start(s, open_files, ctx) ==
    LET f == next_filter(IterList(vcall.list))
    IN IF f.val = None
       THEN [s EXCEPT !.gen.pc = "finished", !.gen.fit = f.fit]
       ELSE LET key == get_nearest_left_key_frame(f.val)
                s1 == [s EXCEPT
                         !.gen.fit = f.fit,
                         !.gen.next_frame_filter_frame = f.val,
                         !.gen.frame_counter = key.frame_number,
                         !.c = [state |-> "open", open_files |-> open_files,
                                ctx |-> ctx,
                                thread_type |-> IF vreader.allow_threading
                                                THEN "AUTO" ELSE "NONE",
                                decoder |-> "running", demuxed |-> 0,
                                decoded |-> 0, pending |-> 0, next_frame |-> 0],
                         !.events = Append(@, "av.open")]
            IN pull(seek(s1, key.timestamp))

\* a VideoReaderWithManifest over a video whose manifest lists some of its
\* keyframes, and the ascending frame ids iterate_frames is to be given
InitManifestVideo ==
    /\ video \in UNION {[1..n -> 0..MaxPerPacket] : n \in 0..MaxPackets}
    /\ manifest \in {[i \in 1..Len(ns) |-> [number |-> ns[i], pts |-> pts_of(ns[i])]] :
                       ns \in {a \in Ascending(0, MaxPackets * MaxPerPacket) :
                                 \A i \in DOMAIN a : a[i] \in KeyFrames}}
    /\ corrupt \in 0..Len(video)
    /\ av_version \in {"9.2.0", "12.2.0"}
    /\ vcall \in [frame_filter : {"list"}, list : Ascending(0, MaxFrameId)]
    /\ vreader \in [start : {0}, stop : {None}, step : {1},
                    allow_threading : BOOLEAN]
    /\ lookup = NoLookup
    /\ gen = NoGen
    /\ container = NoContainer
    /\ emitted = <<>>
    /\ events = <<>>
    /\ cls = "None" /\ objSize = <<>> /\ max_cache_memory = 0
    /\ max_cache_entries = 0 /\ iterator = None /\ pos = -1
    /\ used_cache_memory = 0 /\ cache = EmptyCache /\ call = NoCall
    /\ writer = NoWriter /\ frames = <<>> /\ chunk = NoChunk
    /\ saved = NoSaved /\ wevents = <<>>
    /\ tree = NoTree /\ validator = NoValidator
    /\ args = NoArgs /\ reader = NoReader /\ rcall = NoRCall

\* the first next(generator) of the manifest reader
ManifestGenStart ==
    /\ gen.pc = "unstarted"
    /\ \E open_files \in BOOLEAN :
       \E ctx \in [{"video"} -> {"closed", "open"}] :
       \E actx \in {"none", "open"} :
          Became(VideoReaderWithManifest_start(
                     vstate, open_files,
                     [st \in {"video", "audio"} |->
                        IF st = "video" THEN ctx["video"] ELSE actx]))

NextManifestVideo ==
    \/ Iterate
    \/ ManifestGenStart
    \/ GenNext
    \/ GenCloseUnstarted
    \/ GenClose

SpecManifestVideo == InitManifestVideo /\ [][NextManifestVideo]_vars

-----------------------------------------------------------------------------
(* ZipChunkWriter, ZipCompressedChunkWriter *)

RECURSIVE Digits(_)
\* the decimal digits of n >= 0, most significant first
Digits(n) == IF n < 10 THEN <<n>> ELSE Append(Digits(n \div 10), n % 10)

RECURSIVE zfill(_, _)
\* the digits padded with zeros on the left to the width, never cut
zfill(d, width) == IF Len(d) >= width THEN d ELSE zfill(<<0>> \o d, width)

\* '{}.{}'.format(idx, ext): the index without the padding
arcname_unpadded(idx, ext) == [stem |-> Digits(idx), ext |-> ext]

\* '{:06d}.{}'.format(idx, ext)
arcname(idx, ext) == [stem |-> zfill(Digits(idx), 6), ext |-> ext]

\* _compress_image: the width and height of the image after the exif
\* transposition, which exchanges them for a rotated image
compress_image(image) ==
    IF image.swap THEN [w |-> image.h, h |-> image.w]
    ELSE [w |-> image.w, h |-> image.h]

\* zipfile.ZipFile(chunk_path, 'x'): exclusive creation
ZipFile_x(c) ==
    IF c.state # "absent"
    THEN [err |-> "FileExistsError", chunk |-> c]
    ELSE [err |-> "None",
          chunk |-> [state |-> "writing", kind |-> "zip", entries |-> <<>>]]

\* leaving the with block closes the archive
ZipFile_close(c) == [c EXCEPT !.state = "closed"]

RECURSIVE zip_write(_, _, _, _)
\* the loop of ZipChunkWriter.save_as_chunk over enumerate(images), from idx
zip_write(w, imgs, idx, c) ==
    IF imgs = <<>> THEN c
    ELSE LET image == Head(imgs)
             ext == IF w.dimension = "DIM_2D" THEN image.ext ELSE "pcd"
         IN zip_write(w, Tail(imgs), idx + 1,
                      [c EXCEPT !.entries =
                           Append(@, [arcname |-> arcname(idx, ext),
                                      image |-> image.id])])

\* ZipChunkWriter.save_as_chunk(images, chunk_path)
ZipChunkWriter_save_as_chunk(w, imgs, c) ==
    LET z == ZipFile_x(c)
    IN IF z.err # "None"
       THEN [chunk |-> c, ret |-> <<>>, err |-> z.err, events |-> <<>>]
       ELSE [chunk |-> ZipFile_close(zip_write(w, imgs, 0, z.chunk)),
             ret |-> <<>>, err |-> "None", events |-> <<>>]

RECURSIVE zip_compressed_write(_, _, _, _)
\* the loop of ZipCompressedChunkWriter.save_as_chunk: the archive and
\* image_sizes after it
zip_compressed_write(w, imgs, idx, st) ==
    IF imgs = <<>> THEN st
    ELSE LET image == Head(imgs)
             size == IF w.dimension = "DIM_2D" /\ w.compress_frames
                     THEN compress_image(image)
                     ELSE [w |-> image.w, h |-> image.h]
             extension == IF w.dimension = "DIM_2D" THEN "jpeg" ELSE "pcd"
         IN zip_compressed_write(
                w, Tail(imgs), idx + 1,
                [image_sizes |-> Append(st.image_sizes, <<size.w, size.h>>),
                 chunk |-> [st.chunk EXCEPT !.entries =
                              Append(@, [arcname |-> arcname(idx, extension),
                                         image |-> image.id])]])

\* ZipCompressedChunkWriter.save_as_chunk(images, chunk_path, compress_frames)
ZipCompressedChunkWriter_save_as_chunk(w, imgs, c) ==
    LET z == ZipFile_x(c)
    IN IF z.err # "None"
       THEN [chunk |-> c, ret |-> <<>>, err |-> z.err, events |-> <<>>]
       ELSE LET st == zip_compressed_write(w, imgs, 0,
                                           [image_sizes |-> <<>>,
                                            chunk |-> z.chunk])
            IN [chunk |-> ZipFile_close(st.chunk), ret |-> st.image_sizes,
                err |-> "None", events |-> <<>>]

-----------------------------------------------------------------------------
(* Mpeg4ChunkWriter, Mpeg4CompressedChunkWriter *)

MAX_MBS_PER_FRAME == 36864

\* x << n
shl(x, n) == x * 2^n

\* the side of the square whose area is the ceiling MAX_MBS_PER_FRAME << 8
Side == 3 * 1024

\* no frame: what next(frame_iter, None) gives at the end
NoFrame == [id |-> None, w |-> None, h |-> None, pts |-> None,
            time_base |-> None]

\* a call on the av library, and the frame or the stream sizes it carries
Ev(op, frame) == [op |-> op, frame |-> frame]

\* _peek_first_frame that hands back only what is left after the first frame
peek_first_frame_consumed(frame_iter) ==
    LET first_frame == IF frame_iter = <<>> THEN NoFrame ELSE Head(frame_iter)
        rest == IF frame_iter = <<>> THEN <<>> ELSE Tail(frame_iter)
    IN [first_frame |-> first_frame, images |-> rest]

\* _peek_first_frame: the first frame and the same sequence again
peek_first_frame(frame_iter) ==
    LET first_frame == IF frame_iter = <<>> THEN NoFrame ELSE Head(frame_iter)
        rest == IF frame_iter = <<>> THEN <<>> ELSE Tail(frame_iter)
    IN [first_frame |-> first_frame, images |-> <<first_frame>> \o rest]

\* _add_video_stream without the rounding up to even sizes
add_video_stream_unrounded(s, w, h) ==
    IF h * w > shl(MAX_MBS_PER_FRAME, 8)
    THEN [s EXCEPT !.err = "ValidationError"]
    ELSE [s EXCEPT !.events = Append(@, Ev("add_stream",
                                           [NoFrame EXCEPT !.w = w, !.h = h]))]

\* _add_video_stream(container, w, h, ...): the stream is added with the
\* sizes rounded up to even, or the resolution error is raised
add_video_stream(s, w, h) ==
    LET h1 == IF h % 2 # 0 THEN h + 1 ELSE h
        w1 == IF w % 2 # 0 THEN w + 1 ELSE w
    IN IF h1 * w1 > shl(MAX_MBS_PER_FRAME, 8)
       THEN [s EXCEPT !.err = "ValidationError"]
       ELSE [s EXCEPT !.events = Append(@, Ev("add_stream",
                                              [NoFrame EXCEPT !.w = w1,
                                                              !.h = h1]))]

\* container.mux(packet): the output file is opened and its header written
\* by the first packet muxed (av's start_encoding), not by av.open
mux(c, id) ==
    IF c.state = "writing" THEN [c EXCEPT !.entries = Append(@, id)]
    ELSE [state |-> "writing", kind |-> "mp4", entries |-> <<id>>]

RECURSIVE encode_images(_, _)
\* _encode_images: each frame is encoded with pts and time_base cleared and
\* its packet muxed; then the encoder is flushed
encode_images(imgs, s) ==
    IF imgs = <<>>
    THEN [s EXCEPT !.events = Append(@, Ev("flush", NoFrame))]
    ELSE LET frame == [Head(imgs) EXCEPT !.pts = None, !.time_base = None]
         IN encode_images(
                Tail(imgs),
                [s EXCEPT !.events = Append(@, Ev("encode", frame)),
                          !.chunk = mux(@, frame.id)])

\* leaving the with block of av.open: the container is closed, which ends
\* the file if one was started
output_container_exit(s) ==
    [s EXCEPT !.events = Append(@, Ev("container.close", NoFrame)),
              !.chunk = IF @.state = "writing" THEN [@ EXCEPT !.state = "closed"]
                        ELSE @]

RECURSIVE downscale(_, _)
\* while input_h / downscale_factor >= 1080: downscale_factor *= 2
downscale(input_h, downscale_factor) ==
    IF input_h >= 1080 * downscale_factor
    THEN downscale(input_h, downscale_factor * 2)
    ELSE downscale_factor

\* the body of both save_as_chunk methods from av.open on
write_video(s, p, output_w, output_h) ==
    LET s1 == [s EXCEPT !.events = Append(@, Ev("av.open", NoFrame))]
        s2 == add_video_stream(s1, output_w, output_h)
    IN IF s2.err # "None" THEN output_container_exit(s2)
       ELSE LET s3 == encode_images(p.images, s2)
                s4 == [s3 EXCEPT !.events = Append(@, Ev("stream.close", NoFrame))]
            IN [output_container_exit(s4) EXCEPT
                   !.ret = << <<p.first_frame.w, p.first_frame.h>> >>]

\* save_as_chunk that looks at the first frame only after av.open
Mpeg4ChunkWriter_save_as_chunk_open_first(w, imgs, c) ==
    LET p == peek_first_frame(imgs)
        s == [chunk |-> c, ret |-> <<>>, err |-> "None",
              events |-> <<Ev("av.open", NoFrame)>>]
    IN IF p.first_frame = NoFrame
       THEN output_container_exit([s EXCEPT !.err = "Exception: no images to save"])
       ELSE write_video(s, p, p.first_frame.w, p.first_frame.h)

\* Mpeg4ChunkWriter.save_as_chunk(images, chunk_path)
Mpeg4ChunkWriter_save_as_chunk(w, imgs, c) ==
    LET p == peek_first_frame(imgs)
        s == [chunk |-> c, ret |-> <<>>, err |-> "None", events |-> <<>>]
    IN IF p.first_frame = NoFrame                       \* if not first_frame
       THEN [s EXCEPT !.err = "Exception: no images to save"]
       ELSE write_video(s, p, p.first_frame.w, p.first_frame.h)

\* Mpeg4CompressedChunkWriter.save_as_chunk(images, chunk_path)
Mpeg4CompressedChunkWriter_save_as_chunk(w, imgs, c) ==
    LET p == peek_first_frame(imgs)
        s == [chunk |-> c, ret |-> <<>>, err |-> "None", events |-> <<>>]
    IN IF p.first_frame = NoFrame                       \* if not first_frame
       THEN [s EXCEPT !.err = "Exception: no images to save"]
       ELSE LET downscale_factor == downscale(p.first_frame.h, 1)
            IN write_video(s, p, p.first_frame.w \div downscale_factor,
                           p.first_frame.h \div downscale_factor)

-----------------------------------------------------------------------------
(* The chunk writers as a state machine *)

\* the sizes of the video frames tried: small ones, and ones about the side
\* of the ceiling
VideoDims == 1..2 \cup (Side - DimSpread)..(Side + DimSpread)

\* n images for a zip writer
ZipImages(n) ==
    {[i \in 1..n |-> [id |-> i, w |-> a[i].w, h |-> a[i].w + 1,
                      swap |-> a[i].swap, ext |-> a[i].ext]] :
        a \in [1..n -> [w : 1..ZipDim, swap : BOOLEAN, ext : {"jpeg", "png"}]]}

\* n frames of one video, as a decoder hands them over
VideoFrames(n, w, h) ==
    [i \in 1..n |-> [id |-> i, w |-> w, h |-> h, pts |-> 40 * i,
                     time_base |-> 1]]

\* a writer, the images for it, and chunk_path free or taken
InitWriter ==
    /\ writer \in [cls : {"ZipChunkWriter"}, dimension : {"DIM_2D", "DIM_3D"},
                    compress_frames : {TRUE}]
                 \cup [cls : {"ZipCompressedChunkWriter"},
                       dimension : {"DIM_2D", "DIM_3D"},
                       compress_frames : BOOLEAN]
                 \cup [cls : {"Mpeg4ChunkWriter", "Mpeg4CompressedChunkWriter"},
                       dimension : {"DIM_2D"}, compress_frames : {TRUE}]
    /\ IF writer.cls \in {"ZipChunkWriter", "ZipCompressedChunkWriter"}
       THEN frames \in UNION {ZipImages(n) : n \in 0..MaxFrames}
       ELSE frames \in {VideoFrames(n, w, h) :
                          n \in 0..MaxFrames, w \in VideoDims, h \in VideoDims}
    /\ chunk \in {NoChunk, [NoChunk EXCEPT !.state = "closed", !.kind = "old"]}
    /\ saved = NoSaved
    /\ wevents = <<>>
    /\ cls = "None" /\ objSize = <<>> /\ max_cache_memory = 0
    /\ max_cache_entries = 0 /\ iterator = None /\ pos = -1
    /\ used_cache_memory = 0 /\ cache = EmptyCache /\ call = NoCall
    /\ args = NoArgs /\ reader = NoReader /\ rcall = NoRCall
    /\ video = NoVideo /\ corrupt = 0 /\ av_version = "None"
    /\ vreader = NoVReader /\ vcall = NoVCall /\ gen = NoGen
    /\ container = NoContainer /\ emitted = <<>> /\ events = <<>>
    /\ manifest = NoManifest /\ lookup = NoLookup
    /\ tree = NoTree /\ validator = NoValidator

Saved(r) ==
    /\ chunk' = r.chunk
    /\ saved' = [done |-> TRUE, ret |-> r.ret, err |-> r.err]
    /\ wevents' = r.events
    /\ UNCHANGED <<writer, frames>>
    /\ UNCHANGED <<cacheVars, readerVars, videoVars, manifestVars, dimVars>>

\* writer.save_as_chunk(images, chunk_path), for each class
SaveZip ==
    /\ writer.cls = "ZipChunkWriter"
    /\ ~saved.done
    /\ Saved(ZipChunkWriter_save_as_chunk(writer, frames, chunk))

SaveZipCompressed ==
    /\ writer.cls = "ZipCompressedChunkWriter"
    /\ ~saved.done
    /\ Saved(ZipCompressedChunkWriter_save_as_chunk(writer, frames, chunk))

SaveMpeg4 ==
    /\ writer.cls = "Mpeg4ChunkWriter"
    /\ ~saved.done
    /\ Saved(Mpeg4ChunkWriter_save_as_chunk(writer, frames, chunk))

SaveMpeg4Compressed ==
    /\ writer.cls = "Mpeg4CompressedChunkWriter"
    /\ ~saved.done
    /\ Saved(Mpeg4CompressedChunkWriter_save_as_chunk(writer, frames, chunk))

NextWriter ==
    \/ SaveZip
    \/ SaveZipCompressed
    \/ SaveMpeg4
    \/ SaveMpeg4Compressed

SpecWriter == InitWriter /\ [][NextWriter]_vars

-----------------------------------------------------------------------------
(* ValidateDimension *)

\* files_to_ignore(directory): no ignored name occurs in the path; names is
\* the set of the names that occur in it
ignore_files == {"__MSOSX", "._.DS_Store", "__MACOSX", ".DS_Store"}

files_to_ignore(directory) == directory.names \cap ignore_files = {}

pcd_version == {"0.7", "0.6", "0.5", "0.4", "0.3", "0.2", "0.1",
                ".7", ".6", ".5", ".4", ".3", ".2", ".1"}

RECURSIVE read_header(_, _)
\* the loop of get_pcd_properties over the lines of the file: comments are
\* skipped, each other line sets kv[k], the line with DATA is the last read
read_header(lines, kv) ==
    IF lines = <<>> THEN kv
    ELSE LET line == Head(lines)
         IN IF line.k = "#"
            THEN read_header(Tail(lines), kv)
            ELSE LET kv1 == [k \in DOMAIN kv \cup {line.k} |->
                               IF k = line.k THEN line.v ELSE kv[k]]
                 IN IF line.k = "DATA" THEN kv1
                    ELSE read_header(Tail(lines), kv1)

\* get_pcd_properties(fp, verify_version=True) that accepts any VERSION
get_pcd_properties_any_version(fp, verify_version) ==
    LET kv == read_header(fp, [k \in {} |-> ""])
    IN IF verify_version THEN "VERSION" \in DOMAIN kv ELSE TRUE

\* get_pcd_properties(fp, verify_version): with verify_version, True or None
\* (FALSE here)
get_pcd_properties(fp, verify_version) ==
    LET kv == read_header(fp, [k \in {} |-> ""])
    IN IF verify_version
       THEN "VERSION" \in DOMAIN kv /\ kv["VERSION"] \in pcd_version
       ELSE TRUE

\* a path: absolute, or what split(actual_path)[-1][1:] leaves of it
AbsPath(id) == [rel |-> FALSE, id |-> id]

RelPath(id) == [rel |-> TRUE, id |-> id]

\* bin_operation: the file is converted, the new file recorded
bin_operation(v, file) ==
    [path |-> RelPath(file.id),
     v |-> [v EXCEPT !.converted_files = Append(@, AbsPath(file.id))]]

\* pcd_operation(file_path, actual_path)
pcd_operation(file) ==
    IF get_pcd_properties(file.lines, TRUE) THEN RelPath(file.id) ELSE AbsPath(file.id)

RECURSIVE process_files(_, _)
\* process_files(root, actual_path, files), on the validator v
process_files(v, files) ==
    IF files = <<>> THEN v
    ELSE LET file == Head(files)
             file_path == AbsPath(file.id)
         IN IF file.ext = ".bin"
            THEN LET b == bin_operation(v, file)
                 IN process_files([b.v EXCEPT !.related_files = @ \cup {b.path}],
                                  Tail(files))
            ELSE IF file.ext = ".pcd"
            THEN LET path == pcd_operation(file)
                 IN IF path = file_path
                    THEN process_files([v EXCEPT !.image_files = @ \cup {file_path}],
                                       Tail(files))
                    ELSE process_files([v EXCEPT !.related_files = @ \cup {path}],
                                       Tail(files))
            ELSE IF file.is_image
                 THEN process_files([v EXCEPT !.image_files = @ \cup {file_path}],
                                    Tail(files))
                 ELSE process_files(v, Tail(files))

RECURSIVE walk(_, _)
\* the loop of validate over os.walk(actual_path)
walk(v, dirs) ==
    IF dirs = <<>> THEN v
    ELSE IF ~files_to_ignore(Head(dirs).root)
         THEN walk(v, Tail(dirs))
         ELSE walk(process_files(v, Head(dirs).files), Tail(dirs))

\* validate()
validate(v, dirs) ==
    IF ~v.path THEN [v EXCEPT !.validated = TRUE]
    ELSE LET v1 == walk(v, dirs)
         IN [v1 EXCEPT !.validated = TRUE,
                       !.dimension = IF v1.related_files # {} THEN "DIM_3D" ELSE @]

\* the kinds of file of a dataset: a legacy point cloud, point clouds with an
\* accepted VERSION, with another VERSION and with none, an image, anything
FileKinds ==
    {[ext |-> ".bin", lines |-> <<>>, is_image |-> FALSE],
     [ext |-> ".pcd", is_image |-> FALSE,
      lines |-> <<[k |-> "#", v |-> ".PCD v.7"], [k |-> "VERSION", v |-> ".7"],
                  [k |-> "FIELDS", v |-> "x y z"], [k |-> "DATA", v |-> "binary"]>>],
     [ext |-> ".pcd", is_image |-> FALSE,
      lines |-> <<[k |-> "VERSION", v |-> "1.0"], [k |-> "DATA", v |-> "ascii"]>>],
     [ext |-> ".pcd", is_image |-> FALSE,
      lines |-> <<[k |-> "FIELDS", v |-> "x y z"], [k |-> "DATA", v |-> "ascii"]>>],
     [ext |-> ".jpg", lines |-> <<>>, is_image |-> TRUE],
     [ext |-> ".txt", lines |-> <<>>, is_image |-> FALSE]}

\* what os.walk may yield for a directory: a root and the kinds of its files
Dirs ==
    [names : {{}, {"__MACOSX"}},
     kinds : UNION {[1..n -> FileKinds] : n \in 0..MaxDirFiles}]

\* the d-th directory of the walk, its files told apart by their place
Dir(d, x) ==
    [root |-> [names |-> x.names],
     files |-> [i \in 1..Len(x.kinds) |->
                  [id |-> <<d, i>>, ext |-> x.kinds[i].ext,
                   lines |-> x.kinds[i].lines,
                   is_image |-> x.kinds[i].is_image]]]

\* a validator as __init__ leaves it, with or without a path, and the tree
\* at that path
InitDim ==
    /\ \E n \in 0..MaxDirs :
          tree \in {[d \in 1..n |-> Dir(d, t[d])] : t \in [1..n -> Dirs]}
    /\ validator \in {[NoValidator EXCEPT !.path = p, !.dimension = "DIM_2D"] :
                         p \in BOOLEAN}
    /\ ~validator.path => tree = <<>>
    /\ cls = "None" /\ objSize = <<>> /\ max_cache_memory = 0
    /\ max_cache_entries = 0 /\ iterator = None /\ pos = -1
    /\ used_cache_memory = 0 /\ cache = EmptyCache /\ call = NoCall
    /\ args = NoArgs /\ reader = NoReader /\ rcall = NoRCall
    /\ video = NoVideo /\ corrupt = 0 /\ av_version = "None"
    /\ vreader = NoVReader /\ vcall = NoVCall /\ gen = NoGen
    /\ container = NoContainer /\ emitted = <<>> /\ events = <<>>
    /\ manifest = NoManifest /\ lookup = NoLookup
    /\ writer = NoWriter /\ frames = <<>> /\ chunk = NoChunk
    /\ saved = NoSaved /\ wevents = <<>>

\* validator.validate()
Validate ==
    /\ ~validator.validated
    /\ validator' = validate(validator, tree)
    /\ UNCHANGED tree
    /\ UNCHANGED <<cacheVars, readerVars, videoVars, manifestVars, writerVars>>

NextDim == Validate

SpecDim == InitDim /\ [][NextDim]_vars

-----------------------------------------------------------------------------
(* Claims about the chunk writers, checked under SpecWriter *)

\* n rounded up to even
Even(n) == n + (n % 2)

\* C11: Mpeg4ChunkWriter.save_as_chunk on frames whose even-rounded
\* width * height exceeds 36864 << 8 = 9437184 raises the resolution error,
\* returns nothing and writes no video file at chunk_path.
C11_ResolutionRejected ==
    (/\ writer.cls = "Mpeg4ChunkWriter"
     /\ saved.done
     /\ frames # <<>>
     /\ Even(frames[1].w) * Even(frames[1].h) > 9437184) =>
        /\ saved.err = "ValidationError"
        /\ saved.ret = <<>>
        /\ chunk.kind # "mp4"
        /\ \A i \in DOMAIN wevents : wevents[i].op \notin {"encode", "flush"}

\* frames whose width * height is within the ceiling and exceeds it only
\* once rounded up to even: rejected
C11_Witness ==
    /\ writer.cls = "Mpeg4ChunkWriter"
    /\ saved.done
    /\ frames # <<>>
    /\ frames[1].w * frames[1].h <= 9437184
    /\ Even(frames[1].w) * Even(frames[1].h) > 9437184
    /\ saved.err = "ValidationError"
    /\ chunk.kind # "mp4"

\* the name of the entry of index i: six digits
Name6(i) == [j \in 1..6 |-> IF j = 6 THEN i ELSE 0]

\* C12: a successful ZipCompressedChunkWriter.save_as_chunk of k 2D frames
\* leaves an archive of exactly k entries, the i-th (from 0) named by the six
\* digits of i with the extension jpeg and holding the i-th input frame, and
\* returns k (width, height) pairs, the i-th that of the i-th frame; the
\* entries of ZipChunkWriter are named the same way, with the extension of
\* the frame's path.
C12_ArchiveLayout ==
    (saved.done /\ saved.err = "None" /\ writer.dimension = "DIM_2D") =>
        /\ writer.cls = "ZipCompressedChunkWriter" =>
              /\ chunk.kind = "zip"
              /\ Len(chunk.entries) = Len(frames)
              /\ Len(saved.ret) = Len(frames)
              /\ \A i \in DOMAIN frames :
                    /\ chunk.entries[i].arcname = [stem |-> Name6(i - 1),
                                                   ext |-> "jpeg"]
                    /\ chunk.entries[i].image = frames[i].id
                    /\ saved.ret[i] =
                          IF writer.compress_frames /\ frames[i].swap
                          THEN <<frames[i].h, frames[i].w>>
                          ELSE <<frames[i].w, frames[i].h>>
        /\ writer.cls = "ZipChunkWriter" =>
              /\ chunk.kind = "zip"
              /\ Len(chunk.entries) = Len(frames)
              /\ \A i \in DOMAIN frames :
                    /\ chunk.entries[i].arcname = [stem |-> Name6(i - 1),
                                                   ext |-> frames[i].ext]
                    /\ chunk.entries[i].image = frames[i].id

\* two or more frames recompressed, the first a rotated one
C12_Witness ==
    /\ writer.cls = "ZipCompressedChunkWriter"
    /\ writer.dimension = "DIM_2D"
    /\ writer.compress_frames
    /\ saved.done
    /\ saved.err = "None"
    /\ Len(frames) >= 2
    /\ frames[1].swap
    /\ Len(saved.ret) = Len(frames)
    /\ chunk.state = "closed"

\* C16: a video chunk writer given no frames raises 'no images to save'
\* before the output container is opened: no call is made on the av library
\* and no video file is at chunk_path.
C16_NoFramesRejected ==
    (/\ writer.cls \in {"Mpeg4ChunkWriter", "Mpeg4CompressedChunkWriter"}
     /\ saved.done
     /\ frames = <<>>) =>
        /\ saved.err = "Exception: no images to save"
        /\ wevents = <<>>
        /\ chunk.kind # "mp4"

\* the plain video writer called with no frames while chunk_path is free
C16_Witness ==
    /\ writer.cls = "Mpeg4ChunkWriter"
    /\ saved.done
    /\ frames = <<>>
    /\ saved.err = "Exception: no images to save"
    /\ chunk = NoChunk

\* the positions in wevents of the library calls of one kind
Calls(op) == {i \in DOMAIN wevents : wevents[i].op = op}

\* the frames handed to the encoder, in the order of the calls
Encoded == SelectSeq(wevents, LAMBDA e : e.op = "encode")

\* C22: in a video chunk write that is not rejected, every frame of the input
\* sequence, the peeked first one included, is passed to the encoder exactly
\* once and in input order with pts and time_base cleared; the flush is made
\* once, after the last frame was encoded and before the output container is
\* closed.
C22_EncodeOrder ==
    (/\ writer.cls \in {"Mpeg4ChunkWriter", "Mpeg4CompressedChunkWriter"}
     /\ saved.done
     /\ saved.err = "None") =>
        /\ Len(Encoded) = Len(frames)
        /\ \A i \in DOMAIN frames :
              Encoded[i].frame = [frames[i] EXCEPT !.pts = None,
                                                  !.time_base = None]
        /\ Cardinality(Calls("flush")) = 1
        /\ Cardinality(Calls("container.close")) = 1
        /\ \A f \in Calls("flush") :
              /\ \A e \in Calls("encode") : e < f
              /\ \A c \in Calls("container.close") : f < c
        /\ chunk.state = "closed"
        /\ chunk.entries = [i \in DOMAIN frames |-> frames[i].id]

\* two or more frames with timestamps written by the plain video writer
C22_Witness ==
    /\ writer.cls = "Mpeg4ChunkWriter"
    /\ saved.done
    /\ saved.err = "None"
    /\ Len(frames) >= 2
    /\ frames[1].pts # None
    /\ Len(Encoded) = Len(frames)
    /\ Encoded[1].frame.id = frames[1].id
    /\ Encoded[1].frame.pts = None
    /\ Calls("flush") # {}

-----------------------------------------------------------------------------
(* Claims about the dimension validator, checked under SpecDim *)

\* a file is a point cloud: a .bin file, or a .pcd file with a VERSION line
\* of an accepted value
PointCloud(file) ==
    \/ file.ext = ".bin"
    \/ /\ file.ext = ".pcd"
       /\ \E i \in DOMAIN file.lines :
             file.lines[i].k = "VERSION" /\ file.lines[i].v \in pcd_version

-----------------------------------------------------------------------------
(* Claims about the caching layer, checked under SpecCache *)

IsAccess(c) == c.op \in {"getitem", "next"}

\* C1: after each access the total size of the cached entries is at most
\* max_cache_memory and their number at most max_cache_entries, or the value
\* just fetched was not cached.
C1_CacheWithinLimits ==
    (cls = "CachingMediaIterator" /\ IsAccess(call)) =>
        \/ /\ SumSizes(cache) <= max_cache_memory
           /\ Cardinality(DOMAIN cache) <= max_cache_entries
        \/ ~call.inserted

\* C2: in every state the counter used_cache_memory equals the sum of the
\* sizes of the entries in the cache.
C2_UsedMemoryIsSum == used_cache_memory = SumSizes(cache)

\* C3: a miss that fetches a value larger than max_cache_memory returns the
\* value, leaves it uncached and raises no error.
C3_OversizedReturnedUncached ==
    (/\ cls = "CachingMediaIterator"
     /\ IsAccess(call)
     /\ ~call.hit
     /\ call.idx < SrcLen
     /\ get_object_size(call.idx) > max_cache_memory) =>
        /\ call.err = "None"
        /\ call.ret = iterable[call.idx + 1]
        /\ call.idx \notin DOMAIN cache

\* what a step that accesses a cached index does
C4_HitStep ==
    (/\ cls = "CachingMediaIterator"
     /\ IsAccess(call')
     /\ call'.idx \in DOMAIN cache) =>
        /\ call'.ret = cache[call'.idx].value
        /\ call'.err = "None"
        /\ iterator' = iterator
        /\ pos' = pos
        /\ cache' = cache
        /\ used_cache_memory' = used_cache_memory

\* C4: an access to an index that is in the cache returns the stored value and
\* leaves the underlying iterator (not advanced, reset or closed), the cursor
\* pos and the cache contents as they were.
C4_HitTouchesNothing == [][C4_HitStep]_vars

\* a hit on an index behind the cursor of an open iterator, which a fetch
\* would have had to restart
C4_Witness ==
    /\ cls = "CachingMediaIterator"
    /\ call.op = "getitem"
    /\ call.hit
    /\ iterator # None
    /\ call.idx < pos

\* the cache c without the keys ev[1..i]
Without(c, ev, i) == [k \in DOMAIN c \ {ev[j] : j \in 1..i} |-> c[k]]

\* the condition the eviction is to establish for a new value of that size
RoomFor(c, value_size) ==
    /\ Cardinality(DOMAIN c) + 1 <= max_cache_entries
    /\ SumSizes(c) + value_size <= max_cache_memory

\* what a step that accesses an index not in the cache evicts
C5_MissStep ==
    (/\ cls = "CachingMediaIterator"
     /\ IsAccess(call')
     /\ call'.idx \notin DOMAIN cache
     /\ call'.err # "StopIteration") =>
        LET ev == call'.evicted
            value_size == get_object_size(call'.idx)
        IN /\ \A i \in 1..Len(ev) :
                 /\ ev[i] = Min(DOMAIN Without(cache, ev, i - 1))
                 /\ ~RoomFor(Without(cache, ev, i - 1), value_size)
           /\ \/ RoomFor(Without(cache, ev, Len(ev)), value_size)
              \/ DOMAIN Without(cache, ev, Len(ev)) = {}

\* C5: on a miss the entries are evicted one at a time, smallest index first,
\* only while there is no room for the new value, until there is room
\* (entries + 1 <= max_cache_entries and used memory + new size <=
\* max_cache_memory) or nothing is left to evict.
C5_EvictSmallestUntilRoom == [][C5_MissStep]_vars

\* C6: get(index) with 0 <= index < n returns the element at position index of
\* the source, for both classes, whatever the order of the calls.
C6_GetReturnsElement ==
    (call.op = "getitem" /\ call.idx < SrcLen) =>
        /\ call.err = "None"
        /\ call.ret = iterable[call.idx + 1]

\* what a call does to the underlying iterator around close()
C14_CloseStep ==
    /\ call'.closes <= (IF iterator # None THEN 1 ELSE 0)
    /\ call'.op = "close" =>
          /\ iterator' = None
          /\ pos' = -1
          /\ call'.closes = (IF iterator # None THEN 1 ELSE 0)
          /\ call'.opens = 0
    /\ (iterator = None /\ IsAccess(call') /\ ~call'.hit) =>
          /\ call'.opens = 1
          /\ call'.err # "StopIteration" =>
                iterator' = call'.idx + 1 /\ pos' = call'.idx
          /\ (cls = "RandomAccessIterator" /\ call'.idx < SrcLen) =>
                call'.err = "None" /\ call'.ret = iterable[call'.idx + 1]

\* C14: close() in any state, once or repeatedly, leaves no underlying
\* iterator and the cursor at -1; no call invokes the underlying close() more
\* than once, and only on an iterator that is held (so at most once per opened
\* iterator); a get from the closed state opens a fresh iterator, advances it
\* from the beginning to the index and returns the element at that index.
C14_CloseIdempotent == [][C14_CloseStep]_vars

\* a close() that released an open, partly consumed iterator
C14_Witness ==
    /\ call.op = "close"
    /\ call.closes = 1
    /\ iterator = None
    /\ pos = -1

\* C15: when an access runs the underlying sequence to its end
\* (StopIteration), the wrapper is left closed: no underlying iterator, the
\* cursor at -1.
C15_ClosedOnExhaustion ==
    (IsAccess(call) /\ call.err = "StopIteration") =>
        iterator = None /\ pos = -1

\* what an access that is not served from the cache does to the iterator
C18_GetStep ==
    (IsAccess(call') /\ ~call'.hit) =>
        LET idx == call'.idx
            restart == iterator = None \/ idx <= pos
        IN /\ call'.opens = (IF restart THEN 1 ELSE 0)
           /\ call'.closes = (IF restart /\ iterator # None THEN 1 ELSE 0)
           /\ call'.err # "StopIteration" =>
                 /\ pos' = idx
                 /\ iterator' = (IF restart THEN idx + 1
                                 ELSE iterator + (idx - pos))
           /\ cls = "RandomAccessIterator" =>
                 /\ call'.err = "None" => call'.ret = iterable[idx + 1]
                 /\ cache' = EmptyCache

\* C18: get(index) closes the underlying iterator and starts a fresh one
\* exactly when index <= cursor or no iterator is open, and keeps the existing
\* one otherwise; it then advances exactly to index, so a successful get leaves
\* the cursor at index; the wrapper keeps nothing of the returned value.
C18_GetRestartsOrAdvances == [][C18_GetStep]_vars

\* a get of the index the cursor is at: the open iterator is closed, a fresh
\* one is started and advanced to the same index
C18_Witness ==
    /\ cls = "RandomAccessIterator"
    /\ call.op = "getitem"
    /\ call.closes = 1
    /\ call.opens = 1
    /\ call.err = "None"
    /\ call.idx > 0
    /\ pos = call.idx
    /\ iterator = call.idx + 1

\* C23: every cache miss that fetched its value ends normally, whatever
\* max_cache_entries (0 included), max_cache_memory and the value's size are:
\* the eviction loop never takes min() of an empty cache, and the access
\* returns the fetched value.
C23_EvictionTerminates ==
    (/\ cls = "CachingMediaIterator"
     /\ IsAccess(call)
     /\ ~call.hit
     /\ call.err # "StopIteration") =>
        /\ call.err = "None"
        /\ call.ret = iterable[call.idx + 1]

\* what close(), reset() and an access of the closed object do to the cache
C24_CacheStep ==
    cls = "CachingMediaIterator" =>
        /\ call'.op \in {"close", "reset"} =>
              /\ cache' = cache
              /\ used_cache_memory' = used_cache_memory
        /\ (/\ IsAccess(call')
            /\ iterator = None
            /\ call'.idx \in DOMAIN cache) =>
              /\ call'.hit
              /\ call'.err = "None"
              /\ call'.ret = cache[call'.idx].value
              /\ call'.ret = iterable[call'.idx + 1]
              /\ call'.opens = 0
              /\ iterator' = None
              /\ pos' = -1
              /\ cache' = cache

\* C24: close() and reset() leave the cache entries as they were; an index
\* cached before close() is served from the cache afterwards, with no
\* underlying iterator opened and the cursor staying at -1.
C24_CacheSurvivesClose == [][C24_CacheStep]_vars

\* a hit on the closed object: the entry was cached while an iterator was
\* open, and only close() drops the iterator
C24_Witness ==
    /\ cls = "CachingMediaIterator"
    /\ call.op = "getitem"
    /\ call.hit
    /\ call.opens = 0
    /\ iterator = None
    /\ pos = -1
    /\ call.idx \in DOMAIN cache

-----------------------------------------------------------------------------
(* Claims about the image-list readers, checked under SpecReader *)

\* C8: a reader built from n >= 1 entries with 0 <= start <= stop and
\* step >= 1 has frame_range = range(start, min(stop, n - 1) + 1, step) and
\* len(reader) the length of that range; an omitted stop is n - 1.
C8_FrameRange ==
    (/\ reader.constructed
     /\ args.step >= 1
     /\ args.stop # None => args.start <= args.stop) =>
        LET n == Len(args.source_path)
            stop == IF args.stop = None THEN n - 1 ELSE Min({args.stop, n - 1})
        IN /\ frame_range(reader) = range(args.start, stop + 1, args.step)
           /\ len(reader) = Len(range(args.start, stop + 1, args.step))

-----------------------------------------------------------------------------
(* Claims about filter and reconcile, checked under SpecFilter *)

\* the calls that do not themselves ask for other settings
KeepsSettings(c) ==
    \/ c.op = "filter"
    \/ c.op = "reconcile" /\ c.sorting_method = "None"

\* what a filter or reconcile call leaves of the settings
C13_SettingsStep ==
    KeepsSettings(rcall') =>
        /\ reader'.start = reader.start
        /\ reader'.stop = reader.stop
        /\ reader'.step = reader.step
        /\ reader'.sorting_method = reader.sorting_method

\* C13: after filter(predicate) or reconcile(new_entries, ...) the reader's
\* start, stop, step and sorting policy equal their values before the call.
C13_SettingsPreserved == [][C13_SettingsStep]_vars

-----------------------------------------------------------------------------
(* Claims about the video decode generator, checked under SpecVideo *)

GenDone == gen.pc \in {"finished", "failed", "closed"}

\* C7: however the generator ends (source or filter exhausted, closed early,
\* an exception while decoding), every open codec context of the container it
\* opened has been closed and then the container has been closed.
C7_ContainerReleased ==
    (GenDone /\ container.state # "none") =>
        /\ \A st \in DOMAIN container.ctx : container.ctx[st] # "open"
        /\ container.state = "closed"
        /\ \A i, j \in DOMAIN events :
              (events[i] = "context.close" /\ events[j] = "container.close")
                  => i < j

\* C9: with an explicit ascending sequence F the generator emits exactly the
\* decoded frames whose zero-based count is in F, in order, one per element
\* of F below the number of frames of the video, and decodes nothing after
\* the last requested frame.
C9_ExplicitFilter ==
    (vcall.frame_filter = "list" /\ corrupt = 0) =>
        LET F == vcall.list
            total == CumFrames(Len(video))
        IN /\ Len(emitted) <= Len(F)
           /\ \A i \in 1..Len(emitted) :
                 emitted[i].frame = F[i] /\ emitted[i].number = F[i]
           /\ gen.pc = "finished" =>
                 Len(emitted) = Len(SelectSeq(F, LAMBDA x : x < total))
           /\ (F # <<>> /\ Len(emitted) = Len(F)) =>
                 container.decoded = CumFrames(PacketOf(F[Len(F)]))
           /\ F = <<>> => container.decoded = 0

\* C19: with frame_filter=True and a configured 0 <= start <= stop and
\* step >= 1 the generator emits the frames of decode index start,
\* start + step, ... up to stop, in order, and none beyond stop: all of them
\* that the video has once it has finished.
C19_ConfiguredRange ==
    (/\ vcall.frame_filter = "True"
     /\ corrupt = 0
     /\ vreader.stop # None
     /\ vreader.start <= vreader.stop) =>
        LET R == range(vreader.start, vreader.stop + 1, vreader.step)
            total == CumFrames(Len(video))
        IN /\ Len(emitted) <= Len(R)
           /\ \A i \in 1..Len(emitted) :
                 /\ emitted[i].number = R[i]
                 /\ emitted[i].frame = R[i]
                 /\ emitted[i].number <= vreader.stop
           /\ gen.pc = "finished" =>
                 Len(emitted) = Len(SelectSeq(R, LAMBDA x : x < total))

\* the generator was left at a yield, or by an exception of the decoder, on
\* the affected version with multithreaded decoding
Abandoned ==
    /\ gen.pc \in {"closed", "failed"}
    /\ container.state # "none"
    /\ av_version = "9.2.0"
    /\ container.thread_type = "AUTO"

\* C20: when the generator is abandoned before the stream ends on av 9.2.0
\* with thread_type AUTO, the demux iterator is run to its end, no packet is
\* decoded after the draining began, and the draining comes before the codec
\* contexts and the container are closed.
C20_DrainBeforeClose ==
    Abandoned =>
        /\ container.demuxed = Len(video)
        /\ \E d \in DOMAIN events :
              /\ events[d] = "drain"
              /\ \A i \in DOMAIN events :
                    /\ events[i] = "decode" => i < d
                    /\ events[i] \in {"context.close", "container.close"} => d < i

\* a generator closed at a yield while packets were left: they were pulled
\* without being decoded, then the codec context was closed
C20_Witness ==
    /\ Abandoned
    /\ gen.pc = "closed"
    /\ container.demuxed = Len(video)
    /\ container.decoded < CumFrames(Len(video))
    /\ \E i, j \in DOMAIN events :
          i < j /\ events[i] = "drain" /\ events[j] = "context.close"

\* C25: with an explicit empty sequence as frame filter the generator of
\* either reader emits no frame and opens no container.
C25_EmptyFilterOpensNothing ==
    (vcall.frame_filter = "list" /\ vcall.list = <<>>) =>
        /\ emitted = <<>>
        /\ events = <<>>
        /\ container.state = "none"

-----------------------------------------------------------------------------
(* Claims about the manifest reader, checked under SpecManifestVideo *)

\* the frame number the lookup answers for the first requested id
StartDecodeFrameNumber ==
    IF vcall.list = <<>> THEN 0
    ELSE get_nearest_left_key_frame(vcall.list[1]).frame_number

\* C21: given ascending frame ids F, the manifest reader seeks to the nearest
\* listed keyframe at or before F[1] and counts the frames from that
\* keyframe's number K: the i-th frame decoded after the seek is frame K + i of
\* the video and is counted as K + i; the frames emitted are those of F, in
\* order, all of them that the video has once the generator has finished, and
\* nothing is decoded after the packet of the last requested frame.
C21_SeekAndCount ==
    container.state # "none" =>
        LET F == vcall.list
            K == StartDecodeFrameNumber
            total == CumFrames(Len(video))
        IN /\ K <= F[1]
           /\ \A i \in DOMAIN manifest :
                 manifest[i].number <= F[1] => manifest[i].number <= K
           /\ K > 0 => \E i \in DOMAIN manifest : manifest[i].number = K
           /\ container.next_frame + container.pending = K + container.decoded
           /\ gen.frame_counter = container.next_frame
           /\ Len(emitted) <= Len(F)
           /\ \A i \in 1..Len(emitted) :
                 emitted[i].number = F[i] /\ emitted[i].frame = F[i]
           /\ (gen.pc = "finished" /\ corrupt = 0) =>
                 Len(emitted) = Len(SelectSeq(F, LAMBDA x : x < total))
           /\ Len(emitted) = Len(F) =>
                 container.decoded = CumFrames(PacketOf(F[Len(F)])) - K

\* a request that begins behind a keyframe other than the first frame: the
\* decoding began at that keyframe and every requested frame was emitted
C21_Witness ==
    /\ container.state # "none"
    /\ gen.pc = "finished"
    /\ StartDecodeFrameNumber > 0
    /\ vcall.list[1] > StartDecodeFrameNumber
    /\ Len(emitted) = Len(vcall.list)
    /\ emitted[1].frame = vcall.list[1]
    /\ container.decoded < CumFrames(Len(video))

-----------------------------------------------------------------------------
(* Claims about the keyframe lookup, checked under SpecManifest *)

\* C10: for a manifest ordered by ascending frame number the lookup returns
\* the number and pts of the entry with the largest number <= the requested
\* frame id, and (0, 0) when the manifest has no entries.
C10_NearestLeftKeyFrame ==
    lookup # NoLookup =>
        /\ \A i \in DOMAIN manifest :
              (/\ manifest[i].number <= lookup.frame_id
               /\ \A j \in DOMAIN manifest :
                     manifest[j].number <= lookup.frame_id
                         => manifest[j].number <= manifest[i].number)
                  => /\ lookup.frame_number = manifest[i].number
                     /\ lookup.timestamp = manifest[i].pts
        /\ manifest = <<>> =>
              lookup.frame_number = 0 /\ lookup.timestamp = 0

\* a request strictly between two keyframes, the lower of which is not the
\* first: the lookup answers the lower one
C10_Witness ==
    /\ lookup # NoLookup
    /\ \E i \in 2..(Len(manifest) - 1) :
          /\ manifest[i].number < lookup.frame_id
          /\ lookup.frame_id < manifest[i + 1].number
          /\ lookup.frame_number = manifest[i].number
          /\ lookup.timestamp = manifest[i].pts

====
